---- MODULE Spec2Model ----
(***************************************************************************)
(* A model of the Fractal engine of src/src/fractal.js: the configuration  *)
(* API (addSrc, addPlugin, addMethod, addAdapter, addExtension,            *)
(* setTransformer), the asynchronous two stage parse (read -> files        *)
(* pipeline -> transformer -> components pipeline -> completion) and the   *)
(* invocation of the methods bound to a published Collection, log and      *)
(* watch.                                                                  *)
(*                                                                         *)
(* Every promise reaction of parse is one action, so that parse calls may  *)
(* overlap and configuration calls may land between two reactions, as the  *)
(* event loop allows.                                                      *)
(*                                                                         *)
(* Spec is one engine under every interleaving; SpecLive adds that queued  *)
(* reactions run; SpecThrow adds listeners and callbacks that throw;       *)
(* SpecRebind is one engine parsed twice in sequence; SpecPair is two      *)
(* engines whose parses are compared; SpecApi is addSrc, log and watch.    *)
(***************************************************************************)
EXTENDS Integers, Sequences, FiniteSets, TLC

\* ---------------------------------------------------------------- bounds
\* The runs explored make at most MaxParses parse calls (which may all be in
\* flight together) on an engine with at most ConfigForMaxParses registered
\* entries (sources + plugins + methods), or at most ParsesForMaxConfig parse
\* calls on an engine with at most MaxConfig registered entries.
MaxParses == 2
ConfigForMaxParses == 0
MaxConfig == 2
ParsesForMaxConfig == 1
\* records the source read may deliver
MaxRecords == 1
\* entries registered on each of two engines that are compared
MaxTwinConfig == 1

\* ---------------------------------------------------------------- values
Targets == {"files", "components"}

\* the value of an omitted argument
Undefined == "undefined"

\* a value that fails the validation of the parameter it is passed as
Invalid == "invalid"

\* target.state = null (constructor), as a Collection reference
NoColl == <<0, "null">>

OtherTarget(t) == IF t = "files" THEN "components" ELSE "files"

\* plugin functions a caller may register
PluginFns == {"tagA", "tagB"}

\* handler functions a caller may register as methods
HandlerFns == {"h1", "h2"}

MethodNames == {"count"}

\* transformer functions: the constructor's () => [] and a pass-through
TransformerFns == {"empty", "identity"}

SrcPaths == {"srcA"}

AdapterNames == {"html"}

\* argument lists a bound method may be invoked with
ArgLists == {<<>>, <<"x">>}

ParseIds == 1..MaxParses

Record(i) == [id |-> i, marks |-> <<>>]

\* the record arrays fs.readDir may resolve with: 0..MaxRecords records
RawInputs == {[i \in 1..n |-> Record(i)] : n \in 0..MaxRecords}

\* how fs.readDir(this.src) may settle: with an array, with no value, or rejected
ReadOutcomes ==
    {[kind |-> "value", value |-> v] : v \in RawInputs}
        \cup {[kind |-> "novalue", value |-> <<>>], [kind |-> "error", value |-> <<>>]}

\* ------------------------------------------------------------- variables
VARIABLES
    src,          \* refs.src: the source list
    plugins,      \* [target -> the plugin list of target.plugins]
    methods,      \* [target -> the {name, handler} list of target.methods]
    adapters,     \* refs.adapters: the registered adapters
    transformer,  \* refs.transformer
    state,        \* [target -> target.state], a Collection reference or NoColl
    parses,       \* [parse id -> the closure and promise chain of that parse call]
    lastCall,     \* what the handler of the latest method invocation was called with
    logged,       \* the log events the latest call that logs has emitted
    watched,      \* what the latest watch call started the file-watch collaborator with
    twin          \* the finished parse of the engine constructed before this one

vars == <<src, plugins, methods, adapters, transformer, state, parses, lastCall,
          logged, watched, twin>>

\* what no step of a parse and no registration of a plugin or method touches
aside == <<logged, watched, twin>>

config == <<src, plugins, methods, adapters, transformer>>

\* no method invoked yet
NoCall == [coll |-> NoColl, name |-> "none", handler |-> "none", args |-> <<>>,
           state |-> [files |-> NoColl, components |-> NoColl],
           returned |-> [threw |-> "none", value |-> 0]]

\* entries registered so far
ConfigSize ==
    Len(src) + Len(plugins.files) + Len(plugins.components)
        + Len(methods.files) + Len(methods.components)

\* parse calls made so far
NumParses == Cardinality({p \in ParseIds : parses[p].pc # "idle"})

\* the entries that may be registered once n parse calls are made
ConfigLimit(n) == IF n <= ParsesForMaxConfig THEN MaxConfig ELSE ConfigForMaxParses

\* the parse calls that may be made once n entries are registered
ParseLimit(n) == IF n <= ConfigForMaxParses THEN MaxParses ELSE ParsesForMaxConfig

\* the values log and watch are called with: a string, a function, an object,
\* an array (of the strings in items) or undefined
Str(v) == [type |-> "string", v |-> v, items |-> <<>>]

Fn(v) == [type |-> "function", v |-> v, items |-> <<>>]

Obj(v) == [type |-> "object", v |-> v, items |-> <<>>]

Arr(items) == [type |-> "array", v |-> "array", items |-> items]

Undef == [type |-> "undefined", v |-> "undefined", items |-> <<>>]

\* v || other
orElse(v, other) == IF v = Undef \/ v = Str("") THEN other ELSE v

\* array.reverse()
Reverse(s) == [i \in 1..Len(s) |-> s[Len(s) + 1 - i]]

\* the i-th element a destructuring takes from the array s
Nth(s, i) == IF i <= Len(s) THEN s[i] ELSE Undef

\* the text of `${v}`
toText(v) == IF v.type \in {"string", "undefined"} THEN v.v ELSE "[object Object]"

\* no watch call made yet
NoWatch == [started |-> FALSE, paths |-> <<>>, callback |-> Undef]

\* no engine constructed before this one
NoTwin == [made |-> FALSE, plugins |-> [t \in Targets |-> <<>>],
           methods |-> [t \in Targets |-> <<>>], transformer |-> "none",
           read |-> [kind |-> "none", value |-> <<>>],
           files |-> <<>>, components |-> <<>>]

\* ------------------------------------------------------------ validation
\* validate.entityType(target)
validEntityType(target) == target \in Targets

\* the check of Plugins.use on the plugin it is given
validPlugin(plugin) == plugin # Invalid

\* validate.method({name, handler})
validMethod(name, handler) == name # Invalid /\ handler # Invalid

\* a parameter's default value: target = 'components'
TargetOrDefault(target) == IF target = Undefined THEN "components" ELSE target

\* ------------------------------------------------- the configuration API
\* Each call is modelled by an operator giving what it leaves and what it
\* raised ("none" when it returned), and by the action that applies it.

\* addSrc(paths) on the source list: every path is validated before
\* refs.src.set runs (lines 83-87)
addSrc(sources, paths) ==
    IF \E i \in 1..Len(paths) : paths[i] = Invalid
    THEN [src |-> sources, raised |-> "InvalidSrc"]
    ELSE [src |-> sources \o paths, raised |-> "none"]

\* log(message, ...args) (lines 240-245): the event it emits, named by the
\* segments of `log.${level}` and carrying (message, data, level)
log(message, args) ==
    LET a == IF Nth(args, 1).type = "string" THEN args ELSE Reverse(args)
        level == orElse(Nth(a, 1), Str("debug"))
        data == Nth(a, 2)
    IN  [name |-> <<"log", toText(level)>>, message |-> message, data |-> data,
         level |-> level]

\* the log events of addSrc(paths): the forEach of lines 83-86 logs each path
\* it has validated and stops at the first that is not valid
addSrcLogs(paths) ==
    LET bad == {i \in 1..Len(paths) : paths[i] = Invalid}
        n == IF bad = {} THEN Len(paths)
             ELSE (CHOOSE i \in bad : \A j \in bad : i <= j) - 1
    IN  [i \in 1..n |-> log(Str(paths[i]), <<>>)]

\* utils.toArray(v)
toArray(v) == IF v.type = "array" THEN v.items ELSE <<v.v>>

\* watch(...args) (lines 225-230): what fs.watch is called with
watch(sources, args) ==
    LET r == Reverse(args)
        callback == orElse(Nth(r, 1), Fn("noop"))
        paths == toArray(orElse(Nth(r, 2), Arr(<<>>)))
    IN  [started |-> TRUE, paths |-> sources \o paths, callback |-> callback]

\* a variant of addPlugin that registers the plugin on both targets
addPluginBoth(pl, plugin, target) ==
    LET t == TargetOrDefault(target) IN
    IF ~validEntityType(t) THEN [plugins |-> pl, raised |-> "InvalidEntityType"]
    ELSE IF ~validPlugin(plugin) THEN [plugins |-> pl, raised |-> "InvalidPlugin"]
    ELSE [plugins |-> [u \in Targets |-> Append(pl[u], plugin)], raised |-> "none"]

\* addPlugin(plugin, target) on the plugin lists pl
addPlugin(pl, plugin, target) ==
    LET t == TargetOrDefault(target) IN
    IF ~validEntityType(t) THEN [plugins |-> pl, raised |-> "InvalidEntityType"]
    ELSE IF ~validPlugin(plugin) THEN [plugins |-> pl, raised |-> "InvalidPlugin"]
    ELSE [plugins |-> [pl EXCEPT ![t] = Append(@, plugin)], raised |-> "none"]

\* addMethod(name, handler, target) on the method lists ms
addMethod(ms, name, handler, target) ==
    LET t == TargetOrDefault(target) IN
    IF ~validMethod(name, handler) THEN [methods |-> ms, raised |-> "InvalidMethod"]
    ELSE IF ~validEntityType(t) THEN [methods |-> ms, raised |-> "InvalidEntityType"]
    ELSE [methods |-> [ms EXCEPT ![t] = Append(@, [name |-> name, handler |-> handler])],
          raised |-> "none"]

\* setTransformer(fn) on the transformer tr
setTransformer(tr, fn) ==
    IF fn = Invalid THEN [transformer |-> tr, raised |-> "InvalidTransformer"]
    ELSE [transformer |-> fn, raised |-> "none"]

\* the files plugin require('./adapters/plugin')(adapter) builds
adapterPlugin(adapter) == "adapterPlugin"

\* the method name `render.${adapter.name}`
renderName(adapter) == "render.html"

\* the handler require('./adapters/render')(adapter) builds
renderHandler(adapter) == "render"

\* addAdapter(adapter): adapters.add, then addPlugin(.., 'files'), then
\* addMethod(..); a statement that raises ends the call and what ran before
\* it stays
addAdapter(ad, pl, ms, adapter) ==
    IF adapter = Invalid
    THEN [adapters |-> ad, plugins |-> pl, methods |-> ms, raised |-> "InvalidAdapter"]
    ELSE LET r == addPlugin(pl, adapterPlugin(adapter), "files")
             m == addMethod(ms, renderName(adapter), renderHandler(adapter), Undefined)
         IN  IF r.raised # "none"
             THEN [adapters |-> Append(ad, adapter), plugins |-> pl, methods |-> ms,
                   raised |-> r.raised]
             ELSE [adapters |-> Append(ad, adapter), plugins |-> r.plugins,
                   methods |-> m.methods, raised |-> m.raised]

\* extension functions a caller may pass: each makes the addPlugin calls
\* listed, in order, on the engine it is given
Extensions == {"extOne", "extThenThrow", "extThrow"}

extensionBody(extension) ==
    CASE extension = "extOne" -> <<[plugin |-> "tagA", target |-> "files"]>>
      [] extension = "extThenThrow" -> <<[plugin |-> "tagA", target |-> "files"],
                                         [plugin |-> "tagA", target |-> "bogus"]>>
      [] extension = "extThrow" -> <<[plugin |-> "tagA", target |-> "bogus"]>>

\* extension(this) (line 142): the calls run in order until one raises, which
\* ends the extension; nothing undoes what ran before
RECURSIVE runExtension(_, _)
runExtension(pl, calls) ==
    IF calls = <<>> THEN [plugins |-> pl, raised |-> "none"]
    ELSE LET r == addPlugin(pl, Head(calls).plugin, Head(calls).target) IN
         IF r.raised # "none" THEN r ELSE runExtension(r.plugins, Tail(calls))

\* addExtension(extension): validate.extension, then extension(this)
addExtension(pl, extension) ==
    IF extension = Invalid THEN [plugins |-> pl, raised |-> "InvalidExtension"]
    ELSE runExtension(pl, extensionBody(extension))

\* a variant of wrappedHandler that passes the engine state of the bind
wrappedHandlerBound(handler, args, now, atBind) ==
    [handler |-> handler, args |-> args, state |-> atBind]

\* the handler addMethod registers: (...args) => handler(args, this.state, this).
\* this is the engine, so this.state is read when the method is invoked: the
\* handler is called with args and the engine state of that moment (now), not
\* the engine state of the moment the method was bound (atBind)
wrappedHandler(handler, args, now, atBind) ==
    [handler |-> handler, args |-> args, state |-> now]

AddSrc(paths) ==
    /\ ConfigSize + Len(paths) <= ConfigLimit(NumParses)
    /\ src' = addSrc(src, paths).src
    /\ logged' = addSrcLogs(paths)
    /\ UNCHANGED <<plugins, methods, adapters, transformer, state, parses, lastCall,
                   watched, twin>>

Log(message, args) ==
    /\ logged' = <<log(message, args)>>
    /\ UNCHANGED <<config, state, parses, lastCall, watched, twin>>

Watch(args) ==
    /\ watched' = watch(src, args)
    /\ UNCHANGED <<config, state, parses, lastCall, logged, twin>>

AddPlugin(plugin, target) ==
    /\ ConfigSize < ConfigLimit(NumParses)
    /\ plugins' = addPlugin(plugins, plugin, target).plugins
    /\ UNCHANGED <<src, methods, adapters, transformer, state, parses, lastCall, aside>>

AddMethod(name, handler, target) ==
    /\ ConfigSize < ConfigLimit(NumParses)
    /\ methods' = addMethod(methods, name, handler, target).methods
    /\ UNCHANGED <<src, plugins, adapters, transformer, state, parses, lastCall, aside>>

SetTransformer(fn) ==
    /\ transformer' = setTransformer(transformer, fn).transformer
    /\ UNCHANGED <<src, plugins, methods, adapters, state, parses, lastCall, aside>>

AddAdapter(adapter) ==
    /\ ConfigSize + 2 <= ConfigLimit(NumParses)
    /\ LET r == addAdapter(adapters, plugins, methods, adapter) IN
       /\ adapters' = r.adapters
       /\ plugins' = r.plugins
       /\ methods' = r.methods
    /\ UNCHANGED <<src, transformer, state, parses, lastCall, aside>>

AddExtension(extension) ==
    /\ ConfigSize < ConfigLimit(NumParses)
    /\ plugins' = addExtension(plugins, extension).plugins
    /\ UNCHANGED <<src, methods, adapters, transformer, state, parses, lastCall, aside>>

\* ------------------------------------------------------------- the parse
NoState == [files |-> NoColl, components |-> NoColl]

\* a Collection that is not constructed yet; bindState is the engine state
\* once the Collection is bound and published (after line 200)
NoCollection == [built |-> FALSE, items |-> <<>>, methods |-> {}, bindState |-> NoState]

NoPromise == [status |-> "none", err |-> "none", components |-> NoColl, files |-> NoColl]

\* the source read has not settled
NoRead == [kind |-> "none", value |-> <<>>]

\* a parse call that is not made yet
IdleParse ==
    [pc |-> "idle", form |-> "none", read |-> NoRead, data |-> <<>>, queue |-> <<>>,
     transformerUsed |-> "none",
     ran |-> [t \in Targets |-> <<>>],
     fetched |-> [t \in Targets |-> <<>>],
     atCall |-> [t \in Targets |-> <<>>],
     stateAtCall |-> NoState,
     coll |-> [t \in Targets |-> NoCollection],
     events |-> <<>>, cb |-> <<>>, promise |-> NoPromise,
     failedAt |-> "none", err |-> "none", trace |-> <<>>,
     afterFailure |-> FALSE]

InFlight(p) == parses[p].pc \notin {"idle", "completed", "failed"}

Called(p) == parses[p].pc # "idle"

\* the mark a plugin function leaves on every record it is given
markOf(plugin) ==
    CASE plugin = "tagA" -> "A"
      [] plugin = "tagB" -> "B"
      [] plugin = "adapterPlugin" -> "adapter"

\* plugin(data, engine) of a plugin that fulfils
applyPlugin(plugin, data) ==
    [i \in 1..Len(data) |-> [data[i] EXCEPT !.marks = Append(@, markOf(plugin))]]

\* transformer(files.toArray()) of a transformer that fulfils
applyTransformer(fn, records) == IF fn = "identity" THEN records ELSE <<>>

\* input || []
inputOrEmpty(outcome) == IF outcome.kind = "value" THEN outcome.value ELSE <<>>

\* a variant of promiseCallback that resolves whatever err is
promiseCallbackResolves(err, components, files) ==
    [status |-> "resolved", err |-> "none", components |-> components, files |-> files]

\* the promise form's callback (lines 180-185): reject(err) or
\* resolve({components, files})
promiseCallback(err, components, files) ==
    IF err # "none"
    THEN [status |-> "rejected", err |-> err, components |-> NoColl, files |-> NoColl]
    ELSE [status |-> "resolved", err |-> "none", components |-> components,
          files |-> files]

\* callback(err, components, files) on the parse record pr; nargs is the
\* number of arguments passed
callCallback(pr, err, components, files, nargs) ==
    [pr EXCEPT
        !.cb = Append(@, [err |-> err, components |-> components, files |-> files,
                          nargs |-> nargs]),
        !.promise = IF pr.form = "promise" THEN promiseCallback(err, components, files)
                    ELSE @,
        !.trace = Append(@, "callback")]

\* a variant of catch that emits error and never calls the callback
catchNoCallback(pr, stage, err) ==
    [pr EXCEPT !.pc = "failed", !.failedAt = stage, !.err = err, !.queue = <<>>,
               !.events = Append(@, [name |-> "error", err |-> err,
                                     components |-> NoColl, files |-> NoColl]),
               !.trace = Append(@, "error")]

\* a variant of catch that calls the callback without emitting error
catchSilent(pr, stage, err) ==
    callCallback(
        [pr EXCEPT !.pc = "failed", !.failedAt = stage, !.err = err, !.queue = <<>>],
        err, NoColl, NoColl, 1)

\* the catch handler (lines 214-217) after a rejection at `stage`:
\* emit('error', err), callback(err)
catch(pr, stage, err) ==
    callCallback(
        [pr EXCEPT !.pc = "failed", !.failedAt = stage, !.err = err, !.queue = <<>>,
                   !.events = Append(@, [name |-> "error", err |-> err,
                                         components |-> NoColl, files |-> NoColl]),
                   !.trace = Append(@, "error")],
        err, NoColl, NoColl, 1)

\* a variant of mutatePlugins that runs the list the target had when parse was
\* called
mutatePluginsAtCall(pr, target) == pr.atCall[target]

\* a variant of mutatePlugins that runs the plugins of both targets in each
\* stage
mutatePluginsAll(pr, target) == plugins.files \o plugins.components

\* the plugin list target.plugins.process(data, this) runs: the list of the
\* target when mutate is entered (line 194)
mutatePlugins(pr, target) == plugins[target]

\* a variant of bindMethods that keeps the first handler registered under a
\* name
bindMethodsFirst(ms) ==
    {ms[i] : i \in {j \in 1..Len(ms) : \A k \in 1..(j-1) : ms[k].name # ms[j].name}}

\* the methods the loop of lines 197-199 leaves on the collection: _.set
\* overwrites, so the last handler registered under a name stays
bindMethods(ms) ==
    {ms[i] : i \in {j \in 1..Len(ms) : \A k \in (j+1)..Len(ms) : ms[k].name # ms[j].name}}

\* parse(callback) with a function or with nothing, as the parse call p:
\* parse.start is emitted and the source read is started (lines 178-205)
parseCalled(p, callback) ==
    /\ parses[p].pc = "idle"
    /\ \A q \in ParseIds : q < p => Called(q)
    /\ parses' = [parses EXCEPT ![p] =
          [@ EXCEPT !.pc = "reading",
                    !.form = IF callback = Undefined THEN "promise" ELSE "cb",
                    !.promise = IF callback = Undefined
                                THEN [NoPromise EXCEPT !.status = "pending"]
                                ELSE NoPromise,
                    !.atCall = plugins,
                    !.stateAtCall = state,
                    !.afterFailure = \E q \in ParseIds : parses[q].pc = "failed",
                    !.events = Append(@, [name |-> "parse.start", err |-> "none",
                                          components |-> NoColl, files |-> NoColl]),
                    !.trace = Append(@, "parse.start")]]
    /\ UNCHANGED <<config, state, lastCall, aside>>

\* parse(callback) called with a function, with nothing, or with something
\* that is not a function
ParseCall(callback) ==
    IF callback = Invalid
    THEN UNCHANGED vars
    ELSE \E p \in ParseIds :
        /\ NumParses < ParseLimit(ConfigSize)
        /\ parseCalled(p, callback)

\* parse(callback) called again once every earlier parse call has completed
ParseAgain(callback) ==
    \E p \in ParseIds :
        /\ p > 1
        /\ \A q \in ParseIds : q < p => parses[q].pc = "completed"
        /\ parseCalled(p, callback)

\* fs.readDir(this.src) settles (line 205); a value enters mutate for files
ReadSettle(p, outcome) ==
    /\ parses[p].pc = "reading"
    /\ LET pr == parses[p] IN
       parses' = [parses EXCEPT ![p] =
          IF outcome.kind = "error" THEN catch(pr, "read", "EIO")
          ELSE [pr EXCEPT !.pc = "files",
                          !.read = outcome,
                          !.data = inputOrEmpty(outcome),
                          !.queue = mutatePlugins(pr, "files"),
                          !.fetched = [@ EXCEPT !.files = plugins.files],
                          !.trace = Append(@, "read")]]
    /\ UNCHANGED <<config, state, lastCall, aside>>

\* Plugins.process: the next plugin of the run is called with the data so
\* far; it fulfils with the next data or rejects, which ends the run
PluginStep(p, ok) ==
    /\ parses[p].pc \in Targets
    /\ parses[p].queue # <<>>
    /\ LET pr == parses[p]
           t == pr.pc
           plugin == Head(pr.queue)
           called == [pr EXCEPT !.ran = [@ EXCEPT ![t] = Append(@, plugin)],
                                !.trace = Append(@, "plugin")]
       IN parses' = [parses EXCEPT ![p] =
             IF ok THEN [called EXCEPT !.data = applyPlugin(plugin, pr.data),
                                       !.queue = Tail(pr.queue)]
             ELSE catch(called, t, "boom")]
    /\ UNCHANGED <<config, state, lastCall, aside>>

\* a variant of Publish that assigns target.state before the Collection is
\* constructed and bound, so that a throw leaves it assigned
PublishAssignFirst(p, ok) ==
    /\ parses[p].pc \in Targets
    /\ parses[p].queue = <<>>
    /\ LET pr == parses[p]
           t == pr.pc
           collection == [built |-> TRUE, items |-> pr.data,
                          methods |-> bindMethods(methods[t]),
                          bindState |-> [state EXCEPT ![t] = <<p, t>>]]
       IN /\ state' = [state EXCEPT ![t] = <<p, t>>]
          /\ parses' = [parses EXCEPT ![p] =
                IF ok
                THEN [pr EXCEPT !.pc = IF t = "files" THEN "transform" ELSE "completing",
                                !.coll = [@ EXCEPT ![t] = collection],
                                !.trace = Append(@, "publish")]
                ELSE catch(pr, IF t = "files" THEN "filesBind" ELSE "componentsBind",
                           "EBIND")]
    /\ UNCHANGED <<config, lastCall, aside>>

\* the reaction of mutate to the processed items (lines 194-202): construct the
\* Collection, bind the target's methods, publish it as target.state; a throw
\* before line 200 rejects with nothing published
Publish(p, ok) ==
    /\ parses[p].pc \in Targets
    /\ parses[p].queue = <<>>
    /\ LET pr == parses[p]
           t == pr.pc
           collection == [built |-> TRUE, items |-> pr.data,
                          methods |-> bindMethods(methods[t]),
                          bindState |-> [state EXCEPT ![t] = <<p, t>>]]
       IN IF ok
          THEN /\ parses' = [parses EXCEPT ![p] =
                     [pr EXCEPT !.pc = IF t = "files" THEN "transform" ELSE "completing",
                                !.coll = [@ EXCEPT ![t] = collection],
                                !.trace = Append(@, "publish")]]
               /\ state' = [state EXCEPT ![t] = <<p, t>>]
          ELSE /\ parses' = [parses EXCEPT ![p] =
                     catch(pr, IF t = "files" THEN "filesBind" ELSE "componentsBind",
                           "EBIND")]
               /\ UNCHANGED state
    /\ UNCHANGED <<config, lastCall, aside>>

\* this.transformer(files.toArray()) (line 207): the transformer is read from
\* the engine now and given the records of the Collection mutate returned
TransformInvoke(p) ==
    /\ parses[p].pc = "transform"
    /\ parses' = [parses EXCEPT ![p] =
          [@ EXCEPT !.pc = "transforming",
                    !.transformerUsed = transformer,
                    !.trace = Append(@, "transformer")]]
    /\ UNCHANGED <<config, state, lastCall, aside>>

\* the transformer settles; its output enters mutate for components (line 208)
TransformSettle(p, ok) ==
    /\ parses[p].pc = "transforming"
    /\ LET pr == parses[p] IN
       parses' = [parses EXCEPT ![p] =
          IF ~ok THEN catch(pr, "transformer", "tboom")
          ELSE [pr EXCEPT !.pc = "components",
                          !.data = applyTransformer(pr.transformerUsed,
                                                    pr.coll.files.items),
                          !.queue = mutatePlugins(pr, "components"),
                          !.fetched = [@ EXCEPT !.components = plugins.components],
                          !.trace = Append(@, "transformed")]]
    /\ UNCHANGED <<config, state, lastCall, aside>>

\* a variant of complete that passes the pair to the callback in the order
\* (files, components)
completeSwapped(pr) ==
    callCallback(
        [pr EXCEPT !.pc = "completed",
                   !.events = Append(@, [name |-> "parse.complete", err |-> "none",
                                         components |-> state.components,
                                         files |-> state.files]),
                   !.trace = Append(@, "parse.complete")],
        "none", state.files, state.components, 3)

\* a variant of complete that calls the callback before it emits
\* parse.complete
completeCallbackFirst(pr) ==
    LET called == callCallback(pr, "none", state.components, state.files, 3) IN
    [called EXCEPT !.pc = "completed",
                   !.events = Append(@, [name |-> "parse.complete", err |-> "none",
                                         components |-> state.components,
                                         files |-> state.files]),
                   !.trace = Append(@, "parse.complete")]

\* the last reaction (lines 209-213): the pair is read from the targets,
\* emitted with parse.complete and passed to the callback
complete(pr) ==
    callCallback(
        [pr EXCEPT !.pc = "completed",
                   !.events = Append(@, [name |-> "parse.complete", err |-> "none",
                                         components |-> state.components,
                                         files |-> state.files]),
                   !.trace = Append(@, "parse.complete")],
        "none", state.components, state.files, 3)

Complete(p) ==
    /\ parses[p].pc = "completing"
    /\ parses' = [parses EXCEPT ![p] = complete(parses[p])]
    /\ UNCHANGED <<config, state, lastCall, aside>>

\* the last reaction when a parse.complete listener throws (who = "listener":
\* emit at line 211 raises, the callback is not reached) or when the callback
\* throws on being called with the pair (who = "callback", line 212): the
\* reaction rejects and the catch handler of lines 214-217 runs
completeThrows(pr, who) ==
    LET emitted == [pr EXCEPT
                       !.events = Append(@, [name |-> "parse.complete", err |-> "none",
                                             components |-> state.components,
                                             files |-> state.files]),
                       !.trace = Append(@, "parse.complete")]
        called == IF who = "callback"
                  THEN callCallback(emitted, "none", state.components, state.files, 3)
                  ELSE emitted
    IN  catch(called, who, "thrown")

CompleteThrows(p, who) ==
    /\ parses[p].pc = "completing"
    /\ who = "callback" => parses[p].form = "cb"
    /\ parses' = [parses EXCEPT ![p] = completeThrows(parses[p], who)]
    /\ UNCHANGED <<config, state, lastCall, aside>>

\* what the handler functions do with (args, state): h1 is the count handler
\* (args, state) => state.toArray().length, which needs a state that has
\* toArray (a Collection, modelled by its field items) and raises a TypeError
\* on any other object; h2 is (args) => args.length; a render handler returns
\* nothing that is looked at
callHandler(handler, args, st) ==
    CASE handler = "h1" ->
            IF "items" \in DOMAIN st
            THEN [threw |-> "none", value |-> Len(st.items)]
            ELSE [threw |-> "TypeError", value |-> 0]
      [] handler = "h2" -> [threw |-> "none", value |-> Len(args)]
      [] OTHER -> [threw |-> "none", value |-> 0]

\* a method of a constructed Collection is invoked with args
InvokeMethod(p, t, name, args) ==
    /\ parses[p].coll[t].built
    /\ \E m \in parses[p].coll[t].methods :
          /\ m.name = name
          /\ LET call == wrappedHandler(m.handler, args, state,
                                        parses[p].coll[t].bindState)
             IN lastCall' = [coll |-> <<p, t>>, name |-> name,
                             returned |-> callHandler(call.handler, call.args,
                                                      call.state)] @@ call
    /\ UNCHANGED <<config, state, parses, aside>>

\* the constructor (lines 32-61) builds another engine once the parse of this
\* one has completed; the finished engine's configuration, the value its
\* source read settled with and the records of the two Collections it
\* published are kept in twin for comparison with the new engine
NewEngine ==
    /\ ~twin.made
    /\ parses[1].pc = "completed"
    /\ \A q \in ParseIds : q # 1 => parses[q].pc = "idle"
    /\ twin' = [made |-> TRUE, plugins |-> plugins, methods |-> methods,
                transformer |-> transformer, read |-> parses[1].read,
                files |-> parses[1].coll.files.items,
                components |-> parses[1].coll.components.items]
    /\ src' = <<>>
    /\ plugins' = [t \in Targets |-> <<>>]
    /\ methods' = [t \in Targets |-> <<>>]
    /\ adapters' = <<>>
    /\ transformer' = "empty"
    /\ state' = NoState
    /\ parses' = [p \in ParseIds |-> IdleParse]
    /\ lastCall' = NoCall
    /\ logged' = <<>>
    /\ watched' = NoWatch

\* ------------------------------------------------------ the specification
Init ==
    /\ src = <<>>
    /\ plugins = [t \in Targets |-> <<>>]
    /\ methods = [t \in Targets |-> <<>>]
    /\ adapters = <<>>
    /\ transformer = "empty"
    /\ state = NoState
    /\ parses = [p \in ParseIds |-> IdleParse]
    /\ lastCall = NoCall
    /\ logged = <<>>
    /\ watched = NoWatch
    /\ twin = NoTwin

\* the arguments the API is called with
TargetArgs == Targets \cup {Undefined, "bogus"}

SrcArgs ==
    {<<s>> : s \in SrcPaths} \cup {<<Invalid>>} \cup {<<s, Invalid>> : s \in SrcPaths}

PluginArgs == PluginFns \cup {Invalid}

NameArgs == MethodNames \cup {Invalid}

HandlerArgs == HandlerFns \cup {Invalid}

AdapterArgs == AdapterNames \cup {Invalid}

ExtensionArgs == Extensions \cup {Invalid}

TransformerArgs == TransformerFns \cup {Invalid}

CallbackArgs == {"cb", Undefined, Invalid}

\* the method names a Collection may carry
BoundNames == MethodNames \cup {"render.html"}

Next ==
    \/ \E paths \in SrcArgs : AddSrc(paths)
    \/ \E plugin \in PluginArgs, target \in TargetArgs : AddPlugin(plugin, target)
    \/ \E name \in NameArgs, handler \in HandlerArgs, target \in TargetArgs :
          AddMethod(name, handler, target)
    \/ \E adapter \in AdapterArgs : AddAdapter(adapter)
    \/ \E extension \in ExtensionArgs : AddExtension(extension)
    \/ \E fn \in TransformerArgs : SetTransformer(fn)
    \/ \E callback \in CallbackArgs : ParseCall(callback)
    \/ \E p \in ParseIds, outcome \in ReadOutcomes : ReadSettle(p, outcome)
    \/ \E p \in ParseIds, ok \in BOOLEAN : PluginStep(p, ok)
    \/ \E p \in ParseIds, ok \in BOOLEAN : Publish(p, ok)
    \/ \E p \in ParseIds : TransformInvoke(p)
    \/ \E p \in ParseIds, ok \in BOOLEAN : TransformSettle(p, ok)
    \/ \E p \in ParseIds : Complete(p)
    \/ \E p \in ParseIds, t \in Targets, name \in BoundNames, args \in ArgLists :
          InvokeMethod(p, t, name, args)

Spec == Init /\ [][Next]_vars

\* every reaction of every parse call is eventually run once it is queued,
\* and every collaborator (source read, plugin, transformer) settles
ParseStep(p) ==
    \/ \E outcome \in ReadOutcomes : ReadSettle(p, outcome)
    \/ \E ok \in BOOLEAN : PluginStep(p, ok)
    \/ \E ok \in BOOLEAN : Publish(p, ok)
    \/ TransformInvoke(p)
    \/ \E ok \in BOOLEAN : TransformSettle(p, ok)
    \/ Complete(p)

SpecLive == Spec /\ \A p \in ParseIds : WF_vars(ParseStep(p))

\* The engine with parse.complete listeners and callbacks that may throw.
NextThrow ==
    \/ Next
    \/ \E p \in ParseIds, who \in {"listener", "callback"} : CompleteThrows(p, who)

SpecThrow == Init /\ [][NextThrow]_vars

\* the arguments log is called with after the message: nothing, a level, a
\* level and data, data alone (as configure does, line 70), no level and data,
\* data and a level
LogArgs ==
    {<<>>, <<Str("warn")>>, <<Str("")>>, <<Str("warn"), Obj("data")>>,
     <<Obj("data")>>, <<Undef, Obj("data")>>, <<Obj("data"), Str("warn")>>}

\* the arguments watch is called with: nothing, a callback, extra paths (one
\* path or an array of paths), extra paths and a callback
WatchArgs ==
    LET paths == {Str("extra"), Arr(<<"extraA", "extraB">>)} IN
    {<<>>, <<Fn("onChange")>>} \cup {<<e>> : e \in paths}
        \cup {<<e, Fn("onChange")>> : e \in paths}

\* An engine whose sources are added, that logs and that starts watching.
NextApi ==
    \/ \E paths \in SrcArgs : AddSrc(paths)
    \/ \E args \in LogArgs : Log(Str("message"), args)
    \/ \E args \in WatchArgs : Watch(args)

SpecApi == Init /\ [][NextApi]_vars

\* Two engines, one constructed after the parse of the other has completed:
\* each is configured with at most MaxTwinConfig plugins or methods, then makes
\* one parse call in the callback form whose every step fulfils.
NextPair ==
    \/ \E plugin \in PluginFns, target \in Targets :
          /\ NumParses = 0 /\ ConfigSize < MaxTwinConfig
          /\ AddPlugin(plugin, target)
    \/ \E name \in MethodNames, handler \in HandlerFns, target \in Targets :
          /\ NumParses = 0 /\ ConfigSize < MaxTwinConfig
          /\ AddMethod(name, handler, target)
    \/ \E fn \in TransformerFns : NumParses = 0 /\ SetTransformer(fn)
    \/ NumParses = 0 /\ ParseCall("cb")
    \/ \E outcome \in ReadOutcomes : outcome.kind # "error" /\ ReadSettle(1, outcome)
    \/ PluginStep(1, TRUE)
    \/ Publish(1, TRUE)
    \/ TransformInvoke(1)
    \/ TransformSettle(1, TRUE)
    \/ Complete(1)
    \/ NewEngine

SpecPair == Init /\ [][NextPair]_vars

\* One engine that parses again after a parse has completed: methods are
\* registered on it before the later parse is called, every step of every
\* parse fulfils, and the methods of the published Collections are invoked.
NextRebind ==
    \/ \E name \in MethodNames, handler \in HandlerFns, target \in Targets :
          /\ \A q \in ParseIds : q > 1 => ~Called(q)
          /\ AddMethod(name, handler, target)
    \/ NumParses = 0 /\ ParseCall("cb")
    \/ ParseAgain("cb")
    \/ \E p \in ParseIds, outcome \in ReadOutcomes :
          outcome.kind # "error" /\ ReadSettle(p, outcome)
    \/ \E p \in ParseIds : Publish(p, TRUE)
    \/ \E p \in ParseIds : TransformInvoke(p)
    \/ \E p \in ParseIds : TransformSettle(p, TRUE)
    \/ \E p \in ParseIds : Complete(p)
    \/ \E p \in ParseIds, t \in Targets, name \in BoundNames, args \in ArgLists :
          InvokeMethod(p, t, name, args)

SpecRebind == Init /\ [][NextRebind]_vars

\* ------------------------------------------------------------ the claims
Last(s) == s[Len(s)]

IsPrefix(s, t) == Len(s) <= Len(t) /\ SubSeq(t, 1, Len(s)) = s

Completes(p) == parses[p].pc # "completed" /\ parses'[p].pc = "completed"

Fails(p) == parses[p].pc # "failed" /\ parses'[p].pc = "failed"

\* C1: in the step in which a parse completes, both targets hold a published
\* Collection and this parse has published both of its own, parse.complete is
\* emitted with the pair (components.state, files.state) read in that step,
\* and the callback is then called once, with (null, components, files) being
\* that same pair; the step publishes nothing itself.
C1_CompletionDeliversPublishedPair ==
    [][\A p \in ParseIds : Completes(p) =>
          LET e == Last(parses'[p].events)
              c == Last(parses'[p].cb)
          IN  /\ state.files # NoColl /\ state.components # NoColl
              /\ parses[p].coll.files.built /\ parses[p].coll.components.built
              /\ state' = state
              /\ parses'[p].events = Append(parses[p].events, e)
              /\ e.name = "parse.complete"
              /\ e.components = state.components /\ e.files = state.files
              /\ parses'[p].cb = <<c>>
              /\ c.err = "none" /\ c.nargs = 3
              /\ c.components = e.components /\ c.files = e.files
              /\ parses'[p].trace = parses[p].trace \o <<"parse.complete", "callback">>
      ]_vars

\* C1 witness: a parse has completed and its callback holds the two
\* Collections this parse published, with a record in each
C1_Witness ==
    \E p \in ParseIds :
        /\ parses[p].pc = "completed"
        /\ parses[p].cb[1].components = <<p, "components">>
        /\ parses[p].cb[1].files = <<p, "files">>
        /\ parses[p].coll.components.items # <<>>
        /\ parses[p].coll.files.items # <<>>

ComponentsStageFailures == {"transformer", "components", "componentsBind"}

FilesStageFailures == {"read", "files", "filesBind"}

\* C2: when the callback of a parse that failed in the transformer or in the
\* components stage is called, files.state is the files Collection this parse
\* built and components.state is the value it had before the parse call.
C2_FailedParseLeavesFilesPublishedComponentsAsBefore ==
    [][\A p \in ParseIds :
          (Fails(p) /\ parses'[p].failedAt \in ComponentsStageFailures) =>
              /\ state'.files = <<p, "files">>
              /\ state'.components = parses[p].stateAtCall.components
      ]_vars

\* the failure each step of a parse rejects with in this model
errOf(stage) ==
    CASE stage = "read" -> "EIO"
      [] stage \in {"files", "components"} -> "boom"
      [] stage = "transformer" -> "tboom"
      [] stage \in {"filesBind", "componentsBind"} -> "EBIND"

\* what holds of a failed parse p: the failure reached the error event, the
\* callback and the promise, and nothing after the failing step ran
FailedShortCircuits(p) ==
    LET pr == parses[p] IN
    /\ pr.err = errOf(pr.failedAt)
    /\ Last(pr.events) = [name |-> "error", err |-> pr.err,
                          components |-> NoColl, files |-> NoColl]
    /\ \A i \in 1..Len(pr.events) :
          /\ pr.events[i].name # "parse.complete"
          /\ pr.events[i].name = "error" => i = Len(pr.events)
    /\ pr.cb = <<[err |-> pr.err, components |-> NoColl, files |-> NoColl, nargs |-> 1]>>
    /\ pr.form = "promise" => pr.promise.status = "rejected" /\ pr.promise.err = pr.err
    /\ SubSeq(pr.trace, Len(pr.trace) - 1, Len(pr.trace)) = <<"error", "callback">>
    /\ pr.failedAt \in FilesStageFailures =>
          /\ ~pr.coll.files.built /\ state.files # <<p, "files">>
          /\ pr.transformerUsed = "none"
          /\ pr.ran.components = <<>> /\ pr.fetched.components = <<>>
          /\ ~pr.coll.components.built /\ state.components # <<p, "components">>
    /\ pr.failedAt = "read" => pr.ran.files = <<>>
    /\ pr.failedAt = "files" =>
          pr.ran.files # <<>> /\ IsPrefix(pr.ran.files, pr.fetched.files)
    /\ pr.failedAt = "filesBind" => pr.ran.files = pr.fetched.files
    /\ pr.failedAt \in ComponentsStageFailures =>
          /\ pr.coll.files.built
          /\ ~pr.coll.components.built /\ state.components # <<p, "components">>
    /\ pr.failedAt = "transformer" => pr.ran.components = <<>>
    /\ pr.failedAt = "components" =>
          pr.ran.components # <<>> /\ IsPrefix(pr.ran.components, pr.fetched.components)
    /\ pr.failedAt = "componentsBind" => pr.ran.components = pr.fetched.components

\* C3: a failure in any of the steps 1-6 of a parse short-circuits it: no later
\* step of that parse has run or ever runs (after a files-stage failure the
\* transformer and the components pipeline were never invoked and this parse
\* published no files.state; the plugins after a failing plugin never ran), one
\* error event carries the failure and the callback (and the promise of the
\* promise form) received the same failure.
C3_FailureShortCircuits ==
    [][\A p \in ParseIds :
          /\ parses'[p].pc = "failed" => FailedShortCircuits(p)'
          /\ parses[p].pc = "failed" => parses'[p] = parses[p]
      ]_vars

\* C3 witness: the first of two files plugins rejected, the second never ran
C3_Witness ==
    \E p \in ParseIds :
        /\ parses[p].pc = "failed" /\ parses[p].failedAt = "files"
        /\ Len(parses[p].ran.files) = 1 /\ Len(parses[p].fetched.files) = 2
        /\ parses[p].cb[1].err = "boom"

\* C4 as stated: the pair {files, components} changes only in the step in
\* which a parse completes.
C4_StateChangesOnlyWhenAParseCompletes ==
    [][state' # state => \E p \in ParseIds : Completes(p)]_vars

\* C4 as amended: a target's state changes only in the step in which the
\* mutate of some parse publishes the Collection it has just constructed for
\* that target, one target per step, and is null until such a step; no other
\* step (configuration call, parse call, plugin, transformer, completion,
\* failure) changes either state.
C4_StateChangesOnlyOnPublication ==
    [][\A t \in Targets :
          /\ state'[t] # state[t] =>
                \E p \in ParseIds :
                    /\ parses[p].pc = t /\ parses[p].queue = <<>>
                    /\ ~parses[p].coll[t].built /\ parses'[p].coll[t].built
                    /\ parses'[p].pc = IF t = "files" THEN "transform" ELSE "completing"
                    /\ state'[t] = <<p, t>>
                    /\ state'[OtherTarget(t)] = state[OtherTarget(t)]
          /\ state'[t] # NoColl => parses'[state'[t][1]].coll[t].built
      ]_vars

\* C4 witness: a parse published files.state and then failed, leaving its
\* files Collection published next to components.state = null
C4_Witness ==
    \E p \in ParseIds :
        /\ parses[p].pc = "failed" /\ parses[p].failedAt \in ComponentsStageFailures
        /\ state.files = <<p, "files">> /\ state.components = NoColl

\* the plugins parse p runs on target t: those that ran, then those queued
RunsOn(p, t) ==
    IF parses[p].pc = t THEN parses[p].ran[t] \o parses[p].queue ELSE parses[p].ran[t]

\* C5 as stated: the plugins an in-flight parse runs on a target are those
\* registered on the target when parse was called, whatever addPlugin does
\* while the parse is suspended.
C5_PipelineSnapshotAtInvocation ==
    \A p \in ParseIds : parses[p].pc \in Targets =>
        RunsOn(p, parses[p].pc) = parses[p].atCall[parses[p].pc]

\* C5 as amended: the plugins a parse runs on a target are those registered on
\* the target when the parse starts that target's pipeline (files: when the
\* source read settles; components: when the transformer settles). An
\* addPlugin made after that does not change them; one made earlier, also
\* after parse was called, is run.
C5_PipelineSnapshotAtStageStart ==
    \A p \in ParseIds : \A t \in Targets :
        /\ parses[p].pc = t => RunsOn(p, t) = parses[p].fetched[t]
        /\ parses[p].coll[t].built => parses[p].ran[t] = parses[p].fetched[t]
        /\ IsPrefix(parses[p].ran[t], parses[p].fetched[t])
        /\ parses[p].pc = t => IsPrefix(parses[p].atCall[t], RunsOn(p, t))

\* C5 witness: a plugin added during the source read is in the files pipeline
\* the parse runs, a plugin added once that pipeline started is not
C5_Witness ==
    \E p \in ParseIds :
        /\ parses[p].pc = "files"
        /\ parses[p].atCall.files = <<>>
        /\ Len(RunsOn(p, "files")) = 1
        /\ Len(plugins.files) = 2

\* the bind state of the Collection the latest method invocation was made on
BindStateOfLastCall == parses[lastCall.coll[1]].coll[lastCall.coll[2]].bindState

\* C6 as stated: a method of a Collection passes its handler the engine state
\* as of the bind of that Collection, whenever it is invoked.
C6_HandlerReceivesBindTimeState ==
    lastCall # NoCall => lastCall.state = BindStateOfLastCall

\* C6 as amended: a method of a Collection passes its handler the arguments of
\* the invocation and the engine state read when it is invoked
\* ({files: files.state, components: components.state} of that moment), with
\* the handler registered under that name when the Collection was bound.
C6_HandlerReceivesCallTimeState ==
    [][\A p \in ParseIds, t \in Targets, name \in BoundNames, args \in ArgLists :
          InvokeMethod(p, t, name, args) =>
              /\ lastCall'.state = state
              /\ lastCall'.args = args
              /\ lastCall'.coll = <<p, t>>
              /\ [name |-> name, handler |-> lastCall'.handler]
                    \in parses[p].coll[t].methods
      ]_vars

\* C6 witness: a method was invoked on a Collection after a later publication
\* changed the engine state, and its handler received the later state
C6_Witness ==
    /\ lastCall # NoCall
    /\ lastCall.state # BindStateOfLastCall
    /\ lastCall.state.components # NoColl

\* C7: the promise of the promise form settles exactly when, and as, the core
\* calls the callback: pending until then, resolved with {components, files}
\* being the pair of callback(null, components, files), rejected with err on
\* callback(err); the events of the parse are those of the callback form
\* (parse.start, then parse.complete or error accordingly).
C7_PromiseFormMirrorsCallbackForm ==
    \A p \in ParseIds :
        LET pr == parses[p] IN
        /\ pr.form # "promise" => pr.promise = NoPromise
        /\ pr.form = "promise" =>
              /\ pr.cb = <<>> <=> pr.promise.status = "pending"
              /\ pr.cb # <<>> =>
                    /\ Len(pr.cb) = 1
                    /\ pr.cb[1].err = "none" =>
                          /\ pr.promise = [status |-> "resolved", err |-> "none",
                                           components |-> pr.cb[1].components,
                                           files |-> pr.cb[1].files]
                          /\ Last(pr.events).name = "parse.complete"
                    /\ pr.cb[1].err # "none" =>
                          /\ pr.promise = [status |-> "rejected", err |-> pr.cb[1].err,
                                           components |-> NoColl, files |-> NoColl]
                          /\ Last(pr.events).name = "error"
        /\ pr.pc # "idle" => pr.events[1].name = "parse.start"

\* C7 witness: one promise resolved with a published pair, another rejected
C7_Witness ==
    \E p, q \in ParseIds :
        /\ parses[p].promise.status = "resolved"
        /\ parses[p].promise.components # NoColl /\ parses[p].promise.files # NoColl
        /\ parses[q].promise.status = "rejected"

Terminal(p) == parses[p].pc \in {"completed", "failed"}

\* C8: every parse call whose collaborators settle reaches Completed or Failed
\* and has its callback called; a failed parse does not keep parse from being
\* called again, and a parse that completes, also one called after a failure,
\* leaves both states published.
C8_ParseSettlesAndEngineStaysUsable ==
    /\ \A p \in ParseIds :
          [](Called(p) => <>(Terminal(p) /\ Len(parses[p].cb) = 1))
    /\ []((NumParses < ParseLimit(ConfigSize)) => ENABLED ParseCall("cb"))
    /\ [](\A p \in ParseIds : parses[p].pc = "completed" =>
              /\ parses[p].coll.files.built /\ parses[p].coll.components.built
              /\ state.files # NoColl /\ state.components # NoColl)

\* C8 witness: a parse called after another parse had failed has completed,
\* and both states are the Collections it published
C8_Witness ==
    \E p, q \in ParseIds :
        /\ parses[p].pc = "failed"
        /\ parses[q].afterFailure /\ parses[q].pc = "completed"
        /\ state = [files |-> <<q, "files">>, components |-> <<q, "components">>]

\* C9: whenever a configuration call or parse(invalid callback) raises, the
\* source list, the plugin lists, the method lists, the adapters, the
\* transformer, the published states and the events of every parse are as
\* they were before the call.
C9_RaisingCallChangesNothing ==
    [][/\ \A paths \in SrcArgs :
             (AddSrc(paths) /\ addSrc(src, paths).raised # "none")
                 => UNCHANGED <<config, state, parses>>
       /\ \A plugin \in PluginArgs, target \in TargetArgs :
             (AddPlugin(plugin, target)
                 /\ addPlugin(plugins, plugin, target).raised # "none")
                 => UNCHANGED <<config, state, parses>>
       /\ \A name \in NameArgs, handler \in HandlerArgs, target \in TargetArgs :
             (AddMethod(name, handler, target)
                 /\ addMethod(methods, name, handler, target).raised # "none")
                 => UNCHANGED <<config, state, parses>>
       /\ \A adapter \in AdapterArgs :
             (AddAdapter(adapter)
                 /\ addAdapter(adapters, plugins, methods, adapter).raised # "none")
                 => UNCHANGED <<config, state, parses>>
       /\ \A extension \in ExtensionArgs :
             (AddExtension(extension)
                 /\ addExtension(plugins, extension).raised # "none")
                 => UNCHANGED <<config, state, parses>>
       /\ \A fn \in TransformerArgs :
             (SetTransformer(fn) /\ setTransformer(transformer, fn).raised # "none")
                 => UNCHANGED <<config, state, parses>>
       /\ ParseCall(Invalid) => UNCHANGED <<config, state, parses>>
      ]_vars

\* C10: addPlugin(p, t) with valid arguments appends p to the plugin list of
\* target t (components when t is omitted) and addMethod(n, h, t) appends
\* {n, h} to the method list of target t; each leaves the other target's
\* lists, the transformer, the source list, the adapters and both published
\* states as they were.
C10_RegistrationTouchesOnlyItsTarget ==
    [][/\ \A plugin \in PluginFns, target \in Targets \cup {Undefined} :
             AddPlugin(plugin, target) =>
                 LET t == TargetOrDefault(target) IN
                 /\ plugins'[t] = Append(plugins[t], plugin)
                 /\ plugins'[OtherTarget(t)] = plugins[OtherTarget(t)]
                 /\ UNCHANGED <<methods, transformer, src, adapters, state, parses>>
       /\ \A name \in MethodNames, handler \in HandlerFns,
             target \in Targets \cup {Undefined} :
             AddMethod(name, handler, target) =>
                 LET t == TargetOrDefault(target) IN
                 /\ methods'[t] = Append(methods[t], [name |-> name, handler |-> handler])
                 /\ methods'[OtherTarget(t)] = methods[OtherTarget(t)]
                 /\ UNCHANGED <<plugins, transformer, src, adapters, state, parses>>
      ]_vars

\* C10 witness: a plugin registered on files and a method registered on
\* components, after a parse published both states
C10_Witness ==
    /\ plugins = [files |-> <<"tagA">>, components |-> <<>>]
    /\ methods = [files |-> <<>>, components |-> <<[name |-> "count", handler |-> "h1"]>>]
    /\ state.files # NoColl /\ state.components # NoColl

\* both engines have made one successful parse
BothParsed == twin.made /\ parses[1].pc = "completed"

\* the two engines were given the same raw input and the same transformer
SameInputs == twin.read = parses[1].read /\ twin.transformer = transformer

\* the two engines register the same plugins and methods on target t
SameOn(t) == twin.plugins[t] = plugins[t] /\ twin.methods[t] = methods[t]

itemsOf(ref) == parses[ref[1]].coll[ref[2]].items

\* the plugins of list applied in order to data
RECURSIVE applyAll(_, _)
applyAll(list, data) ==
    IF list = <<>> THEN data ELSE applyAll(Tail(list), applyPlugin(Head(list), data))

\* C12: when a parse completes, files.state holds the files plugins applied in
\* registration order to the raw input (no records when the read yielded no
\* value) and components.state holds the components plugins applied in
\* registration order to transformer(files.state.toArray()).
C12_StatesHoldThePipelineResults ==
    [][\A p \in ParseIds : Completes(p) =>
          LET pr == parses[p] IN
          /\ state' = state
          /\ itemsOf(state.files) = applyAll(pr.fetched.files, inputOrEmpty(pr.read))
          /\ itemsOf(state.components) =
                applyAll(pr.fetched.components,
                         applyTransformer(pr.transformerUsed, itemsOf(state.files)))
      ]_vars

\* C13: a method registered with the count handler and invoked on a published
\* components Collection hands the handler the Collection of that target, so
\* that the call returns the number of component records.
C13_CountReturnsNumberOfComponents ==
    (lastCall.handler = "h1" /\ lastCall.coll # NoColl
        /\ lastCall.coll[2] = "components") =>
            lastCall.returned = [threw |-> "none", value |-> Len(itemsOf(lastCall.coll))]

\* the handler registered last under name in the method list ms
lastRegistered(ms, name) ==
    LET at == {i \in 1..Len(ms) : ms[i].name = name}
        last == CHOOSE i \in at : \A j \in at : j <= i
    IN  ms[last].handler

\* the pair of Collections parse p published
pairOf(p) == [files |-> <<p, "files">>, components |-> <<p, "components">>]

\* C14: a method name registered on a target before a parse P1 and again
\* before the next parse P2 is, once P2 has completed and while P2 is the
\* latest parse, bound on the Collection P2 published to the handler
\* registered last, and invoking it passes that handler the engine state of
\* P2 (the pair of Collections P2 published), not that of P1.
C14_LaterBindingWinsAndSeesLaterState ==
    [][\A t \in Targets, name \in MethodNames, args \in ArgLists :
          (/\ NumParses = 2 /\ parses[2].pc = "completed"
           /\ \E m \in parses[1].coll[t].methods : m.name = name
           /\ InvokeMethod(2, t, name, args)) =>
              /\ lastCall'.coll = <<2, t>>
              /\ lastCall'.handler = lastRegistered(methods[t], name)
              /\ lastCall'.args = args
              /\ lastCall'.state = pairOf(2)
      ]_vars

\* C14 witness: count was registered on components with h1 before the first
\* parse and with h2 before the second; invoked on the Collection the second
\* parse published, h2 ran with the pair of the second parse
C14_Witness ==
    /\ parses[2].pc = "completed"
    /\ methods.components = <<[name |-> "count", handler |-> "h1"],
                              [name |-> "count", handler |-> "h2"]>>
    /\ parses[1].coll.components.methods = {[name |-> "count", handler |-> "h1"]}
    /\ lastCall.coll = <<2, "components">>
    /\ lastCall.handler = "h2"
    /\ lastCall.state = pairOf(2)

\* the argument of the given type among args, or other when there is none
argOfType(args, type, other) ==
    IF \E i \in 1..Len(args) : args[i].type = type /\ args[i] # Str("")
    THEN args[CHOOSE i \in 1..Len(args) : args[i].type = type /\ args[i] # Str("")]
    ELSE other

\* the one event log is to emit for a call: named log.<level> with the level
\* supplied, or debug, and carrying (message, data, level)
logExpected(message, args) ==
    LET level == argOfType(args, "string", Str("debug")) IN
    [name |-> <<"log", level.v>>, message |-> message,
     data |-> argOfType(args, "object", Undef), level |-> level]

\* C15: every log call emits exactly one event, named log.<level> where level
\* is the level supplied or debug when none is, carrying (message, data,
\* level), whatever the shape of the call: log(message), log(message, level),
\* log(message, level, data), log(message, data).
C15_LogEmitsOneLevelledEvent ==
    [][\A args \in LogArgs :
          Log(Str("message"), args) => logged' = <<logExpected(Str("message"), args)>>
      ]_vars

\* what watch is to start the file-watch collaborator with: the source list
\* followed by the extra paths, and the callback supplied or a no-op
watchExpected(sources, args) ==
    LET extra == IF \E i \in 1..Len(args) : args[i].type \in {"string", "array"}
                 THEN toArray(args[CHOOSE i \in 1..Len(args) :
                                      args[i].type \in {"string", "array"}])
                 ELSE <<>>
    IN  [started |-> TRUE, paths |-> sources \o extra,
         callback |-> argOfType(args, "function", Fn("noop"))]

\* C16: watch starts the file-watch collaborator on the source list followed
\* by the extra paths, with the callback supplied or a no-op, for watch(),
\* watch(callback), watch(paths) and watch(paths, callback).
C16_WatchMergesSourcesAndPaths ==
    [][\A args \in WatchArgs : Watch(args) => watched' = watchExpected(src, args)]_vars

\* the steps of a parse whose stages run nf files plugins and nc components
\* plugins, in the order of spec 4.4
stepsInOrder(nf, nc) ==
    <<"parse.start", "read">> \o [i \in 1..nf |-> "plugin"]
        \o <<"publish", "transformer", "transformed">> \o [i \in 1..nc |-> "plugin"]
        \o <<"publish", "parse.complete", "callback">>

\* the steps tr are the first steps of a parse in that order
startsInOrder(tr) ==
    \E nf, nc \in 0..Len(tr) : IsPrefix(tr, stepsInOrder(nf, nc))

\* C17: the steps of every parse call occur in the order parse.start, source
\* read settled, files plugins, files Collection bound and published,
\* transformer invoked on the records of that Collection and settled,
\* components plugins, components Collection published, parse.complete,
\* callback (a failure ends the order there with error and the callback); the
\* components pipeline of a parse starts only after this parse has published
\* its files Collection and its transformer has produced output from it.
C17_StepsInStrictOrder ==
    \A p \in ParseIds :
        LET pr == parses[p] IN
        /\ IF pr.pc = "failed"
           THEN /\ startsInOrder(SubSeq(pr.trace, 1, Len(pr.trace) - 2))
                /\ SubSeq(pr.trace, Len(pr.trace) - 1, Len(pr.trace)) = <<"error", "callback">>
                /\ \A i \in 1..(Len(pr.trace) - 2) :
                      pr.trace[i] \notin {"parse.complete", "callback"}
           ELSE startsInOrder(pr.trace)
        /\ pr.pc = "completed" <=> (pr.trace # <<>> /\ Last(pr.trace) = "callback"
                                      /\ pr.failedAt = "none")
        /\ (pr.pc \in {"components", "completing", "completed"}
               \/ pr.ran.components # <<>> \/ pr.coll.components.built) =>
              /\ pr.coll.files.built
              /\ pr.transformerUsed # "none"
              /\ \E i \in 1..Len(pr.trace) : pr.trace[i] = "transformed"
        /\ pr.pc = "components" /\ pr.ran.components = <<>> =>
              pr.data = applyTransformer(pr.transformerUsed, pr.coll.files.items)

\* C17 witness: a parse with a plugin in each stage has completed, all its
\* steps in order
C17_Witness ==
    \E p \in ParseIds :
        /\ parses[p].pc = "completed"
        /\ parses[p].trace = stepsInOrder(1, 1)

\* the events named name among those parse p emitted
emittedBy(p, name) ==
    {i \in 1..Len(parses[p].events) : parses[p].events[i].name = name}

\* C18: the callback of a parse call is invoked at most once, with the pair or
\* with the error and never both, and at most one of parse.complete and error
\* is emitted for the call, also when a parse.complete listener or the
\* callback throws.
C18_CallbackAndOutcomeAtMostOnce ==
    \A p \in ParseIds :
        /\ Len(parses[p].cb) <= 1
        /\ Cardinality(emittedBy(p, "parse.complete"))
              + Cardinality(emittedBy(p, "error")) <= 1

\* C19: the pair a parse call emits with parse.complete and passes to its
\* callback is the pair of Collections this same call constructed, also when
\* parse calls overlap.
C19_DeliveredPairIsTheCallsOwn ==
    [][\A p \in ParseIds : Completes(p) =>
          LET e == Last(parses'[p].events)
              c == Last(parses'[p].cb)
          IN  /\ e.components = <<p, "components">> /\ e.files = <<p, "files">>
              /\ c.components = <<p, "components">> /\ c.files = <<p, "files">>
              /\ parses[p].coll.components.items =
                    applyAll(parses[p].fetched.components,
                             applyTransformer(parses[p].transformerUsed, itemsOf(c.files)))
      ]_vars

\* no parse is in flight and every parse call made so far has completed
Quiescent ==
    /\ \E p \in ParseIds : Called(p)
    /\ \A p \in ParseIds : parses[p].pc \in {"idle", "completed"}

\* C20: whenever no parse is in flight and every parse call made so far has
\* succeeded, files.state and components.state were published by the same
\* parse call, and components.state is that call's components stage applied
\* to the records of the published files.state.
C20_QuiescentStatesFromOneParse ==
    Quiescent =>
        LET p == state.components[1] IN
        /\ state.files # NoColl /\ state.components # NoColl
        /\ state.files[1] = p
        /\ itemsOf(state.components) =
              applyAll(parses[p].fetched.components,
                       applyTransformer(parses[p].transformerUsed, itemsOf(state.files)))

====
